---- MODULE Spec2Model ----
(***************************************************************************)
(* State-machine model of spamcop_forwarder.py: the folder classifier, the *)
(* spam-folder selection, the dedup registry and the forwarding gate of    *)
(* the run loop.  Folder names are TLA+ strings handled character by       *)
(* character, so the classifier is computed as the code computes it.       *)
(***************************************************************************)
EXTENDS Integers, Sequences, FiniteSets, TLC

(***************************************************************************)
(* String helpers (Python str methods used by the classifier).             *)
(***************************************************************************)
LowerChars == "abcdefghijklmnopqrstuvwxyz"
UpperChars == "ABCDEFGHIJKLMNOPQRSTUVWXYZ"

\* one character of str.upper()
UpperChar(c) ==
    IF \E i \in 1..Len(LowerChars) : SubSeq(LowerChars, i, i) = c
    THEN LET i == CHOOSE j \in 1..Len(LowerChars) : SubSeq(LowerChars, j, j) = c
         IN  SubSeq(UpperChars, i, i)
    ELSE c

RECURSIVE StrUpper(_)
StrUpper(s) ==
    IF Len(s) = 0 THEN ""
    ELSE UpperChar(SubSeq(s, 1, 1)) \o StrUpper(SubSeq(s, 2, Len(s)))

\* one character of str.lower()
LowerChar(c) ==
    IF \E i \in 1..Len(UpperChars) : SubSeq(UpperChars, i, i) = c
    THEN LET i == CHOOSE j \in 1..Len(UpperChars) : SubSeq(UpperChars, j, j) = c
         IN  SubSeq(LowerChars, i, i)
    ELSE c

RECURSIVE StrLower(_)
StrLower(s) ==
    IF Len(s) = 0 THEN ""
    ELSE LowerChar(SubSeq(s, 1, 1)) \o StrLower(SubSeq(s, 2, Len(s)))

\* str.replace(old, new) for a one-character old
RECURSIVE StrReplaceChar(_, _, _)
StrReplaceChar(s, old, new) ==
    IF Len(s) = 0 THEN ""
    ELSE (IF SubSeq(s, 1, 1) = old THEN new ELSE SubSeq(s, 1, 1))
         \o StrReplaceChar(SubSeq(s, 2, Len(s)), old, new)

\* Python's  sub in s
StrContains(s, sub) ==
    \E i \in 1..(Len(s) - Len(sub) + 1) : SubSeq(s, i, i + Len(sub) - 1) = sub

StrStartsWith(s, pre) ==
    Len(pre) <= Len(s) /\ SubSeq(s, 1, Len(pre)) = pre

StrEndsWith(s, suf) ==
    Len(suf) <= Len(s) /\ SubSeq(s, Len(s) - Len(suf) + 1, Len(s)) = suf

\* str.strip() for the whitespace the names of the model can hold (blanks)
RECURSIVE StrStrip(_)
StrStrip(s) ==
    IF Len(s) = 0 THEN ""
    ELSE IF SubSeq(s, 1, 1) = " " THEN StrStrip(SubSeq(s, 2, Len(s)))
    ELSE IF SubSeq(s, Len(s), Len(s)) = " " THEN StrStrip(SubSeq(s, 1, Len(s) - 1))
    ELSE s

(***************************************************************************)
(* Program constants.                                                      *)
(***************************************************************************)
FORBIDDEN_FOLDERS ==
    { "INBOX", "inbox", "Inbox", "\"INBOX\"",
      "[Google Mail]/All Mail", "\"[Google Mail]/All Mail\"",
      "[Google Mail]/Important", "\"[Google Mail]/Important\"",
      "[Google Mail]/Sent Mail", "\"[Google Mail]/Sent Mail\"",
      "[Google Mail]/Starred", "\"[Google Mail]/Starred\"",
      "[Google Mail]/Drafts", "\"[Google Mail]/Drafts\"",
      "[Gmail]/All Mail", "\"[Gmail]/All Mail\"",
      "[Gmail]/Important", "\"[Gmail]/Important\"",
      "[Gmail]/Sent Mail", "\"[Gmail]/Sent Mail\"",
      "[Gmail]/Starred", "\"[Gmail]/Starred\"",
      "[Gmail]/Drafts", "\"[Gmail]/Drafts\"" }

COMMON_SPAM_FOLDER_NAMES ==
    << "[Google Mail]/Spam", "[Gmail]/Spam", "\"[Gmail]/Spam\"",
       "Spam", "[Gmail]/Junk", "Junk" >>

(***************************************************************************)
(* Folder classifier.                                                      *)
(***************************************************************************)
normalize_folder_name(folder_name) ==
    StrReplaceChar(
      StrReplaceChar(
        StrReplaceChar(
          StrReplaceChar(
            StrReplaceChar(StrUpper(folder_name), "\"", ""),
            "'", ""),
          "\\", "/"),
        "[", ""),
      "]", "")

\* the INBOX test of is_forbidden_folder on the normalized name
IsInboxName(normalized) ==
    \/ normalized = "INBOX"
    \/ StrEndsWith(normalized, "/INBOX")
    \/ StrStartsWith(normalized, "INBOX/")

forbidden_patterns == { "ALL MAIL", "IMPORTANT", "SENT MAIL", "STARRED", "DRAFTS" }

\* only the literal list is consulted
is_forbidden_folder_exact(folder_name) ==
    folder_name \in FORBIDDEN_FOLDERS

is_forbidden_folder(folder_name) ==
    \/ folder_name \in FORBIDDEN_FOLDERS
    \/ IsInboxName(normalize_folder_name(folder_name))
    \/ \E pattern \in forbidden_patterns :
          StrContains(normalize_folder_name(folder_name), pattern)

is_spam_folder(folder_name) ==
    \/ StrContains(normalize_folder_name(folder_name), "SPAM")
    \/ StrContains(normalize_folder_name(folder_name), "JUNK")

(***************************************************************************)
(* Bounds and the remote side.                                             *)
(***************************************************************************)
\* uids of the remote messages are 1..MaxUid
MaxUid == 2
Uids == 1..MaxUid

\* LIST responses (folder names as parse_folder_from_list_response yields
\* them); the empty one is a failed LIST
ListOptions ==
    { << >>,
      << "INBOX", "[Gmail]/Spam", "[Google Mail]/Spam", "[Gmail]/Drafts", "Work" >>,
      << "INBOX", "Junk Drafts", "Spam", "Work" >> }

\* folder names the configuration can hold in SPAM_FOLDER_NAME
ConfigFolderNames ==
    { "[Google Mail]/Spam", "[Gmail]/Spam", "INBOX", "Work", "Junk Drafts", "Spam/INBOX " }

\* contents of the folder cache file at start-up ("" is no cache file)
CacheFileContents == { "", "[Gmail]/Spam", "INBOX" }

SeqToSet(seq) == { seq[i] : i \in 1..Len(seq) }

AllFolderNames ==
    UNION { SeqToSet(l) : l \in ListOptions } \cup ConfigFolderNames
      \cup CacheFileContents \cup SeqToSet(COMMON_SPAM_FOLDER_NAMES)
      \cup { "Spam/INBOX" }

\* sets of folders on which the server answers OK to SELECT/STATUS in one
\* iteration: nothing, the usual Gmail folders, the plain folders, everything
SelectOkOptions ==
    { {},
      { "INBOX", "[Gmail]/Spam", "[Google Mail]/Spam", "[Gmail]/Drafts", "Work" },
      { "INBOX", "Spam", "Work", "Junk Drafts" },
      AllFolderNames \ {""} }

\* the messages of a remote folder (the uids UID SEARCH returns for it);
\* uids of different folders coincide numerically
Mailbox(folder_name) ==
    IF StrContains(folder_name, "[Gmail]/Spam") THEN Uids ELSE {1}

\* MESSAGES count of the STATUS response
MsgCount(folder_name) == Cardinality(Mailbox(folder_name))

\* the classifier's verdicts on the names of the model, computed once
ForbiddenNames == { n \in AllFolderNames : is_forbidden_folder(n) }
SpamNames == { n \in AllFolderNames : is_spam_folder(n) }
InboxNames == { n \in AllFolderNames : IsInboxName(normalize_folder_name(n)) }
ListCandidateNames ==
    { n \in AllFolderNames :
        /\ \/ StrContains(StrUpper(n), "SPAM")
           \/ StrContains(StrUpper(n), "JUNK")
        /\ ~ StrContains(StrUpper(n), "INBOX") }

(***************************************************************************)
(* State.                                                                  *)
(***************************************************************************)
VARIABLES
    SIMULATION_MODE,       \* config.py
    PREVIEW_ALL_FOLDERS,   \* config.py
    SPAM_FOLDER_NAME,      \* config.py
    sent_uids_file,        \* .spamcop_sent_uids.txt: the set of uids in it
    folder_cache_file,     \* .spamcop_folder_cache.txt: its text, "" if absent
    first_run_flag,        \* .spamcop_first_run_complete exists
    is_first_run,          \* run_spam_processor's is_first_run
    pc,                    \* position of the run loop
    mail,                  \* the IMAP session: "none", "in" (logged in), "out"
    server_ok,             \* folders the server accepts in this iteration
    spam_candidate_names,  \* list_all_folders' second result
    selectable_folders,    \* find_and_select_spam_folder: the numbered list
    selected_folder,       \* process_spam_iteration's selected_folder
    email_uids,            \* result of the coarse search
    new_email_uids,        \* after the registry filter
    spam_candidates,       \* uids of analyze_message_headers' candidates
    downloaded_files,      \* uids of the files download_messages saved
    response,              \* the operator's last answer at a prompt
    fwd_first_run,         \* forward_to_spamcop's is_first_run
    smtp_result,           \* outcome of the last forward_to_spamcop call
    cmdlog,                \* folder commands sent by the latest step
    outbox,                \* uids delivered to the report address
    dispatched,            \* << folder, uid >> of the messages delivered
    disk,                  \* uids with a downloaded file on disk
    unreliable_store,      \* reads and writes of the registry file can fail
    retry_uids,            \* candidates whose latest dispatch failed
    cls_name,              \* classifier run: the folder name classified
    cls_forbidden,         \* classifier run: is_forbidden_folder's verdict
    cls_spam,              \* classifier run: is_spam_folder's verdict
    LOOP_FREQUENCY_HOURS,      \* config.py: << >> for None, << n >> for n
    SPAM_SEARCH_WINDOW_HOURS,  \* config.py: << >> for None, << n >> for n
    EXCLUDED_SENDERS,          \* config.py
    EXCLUDED_SUBJECT_KEYWORDS, \* config.py
    FORCE_INCLUDE_KEYWORDS,    \* config.py
    trg_sender,            \* triage run: sender of the message analysed
    trg_subject,           \* triage run: its decoded subject
    trg_body_text,         \* triage run: the body text the analysis holds
    trg_verdict,           \* triage run: what analyze_message_headers did
    tf_cutoff,             \* time filter run: cutoff_time_utc, in seconds
    tf_responses,          \* time filter run: the INTERNALDATE fetch per uid
    tf_filtered,           \* time filter run: filtered_email_uids
    ct_now,                \* cutoff run: datetime.now(), local, in seconds
    ct_result,             \* cutoff run: what calculate_cutoff_times returned
    sz_data,               \* size run: data_size, the RFC822.SIZE fetch response
    sz_size                \* size run: what parse_rfc822_size returned

config_vars == << SIMULATION_MODE, PREVIEW_ALL_FOLDERS, SPAM_FOLDER_NAME >>
file_vars == << sent_uids_file, folder_cache_file, first_run_flag >>
local_vars == << server_ok, spam_candidate_names, selectable_folders,
                 selected_folder, email_uids, new_email_uids, spam_candidates,
                 downloaded_files, response, fwd_first_run >>
env_vars == << cmdlog, outbox, dispatched, disk, unreliable_store, retry_uids,
              smtp_result >>
cls_vars == << cls_name, cls_forbidden, cls_spam >>
startup_vars == << LOOP_FREQUENCY_HOURS, SPAM_SEARCH_WINDOW_HOURS >>
triage_config_vars == << EXCLUDED_SENDERS, EXCLUDED_SUBJECT_KEYWORDS,
                         FORCE_INCLUDE_KEYWORDS >>
trg_vars == << trg_sender, trg_subject, trg_body_text, trg_verdict >>
tf_vars == << tf_cutoff, tf_responses, tf_filtered >>
ct_vars == << ct_now, ct_result >>
sz_vars == << sz_data, sz_size >>
fn_vars == << cls_vars, startup_vars, triage_config_vars, trg_vars, tf_vars,
             ct_vars, sz_vars >>
vars == << config_vars, file_vars, is_first_run, pc, mail, local_vars,
           env_vars, fn_vars >>

\* the values config.py ships with (load_config's template, lines 275-327)
ConfigDefaults ==
    /\ LOOP_FREQUENCY_HOURS = << 5 >>
    /\ SPAM_SEARCH_WINDOW_HOURS = << 5 >>
    /\ EXCLUDED_SENDERS = << >>
    /\ EXCLUDED_SUBJECT_KEYWORDS = << >>
    /\ FORCE_INCLUDE_KEYWORDS = << >>

\* no message has been analysed
TriageIdle ==
    /\ trg_sender = ""
    /\ trg_subject = ""
    /\ trg_body_text = ""
    /\ trg_verdict = "none"

\* the time filter has not run
TimeFilterIdle ==
    /\ tf_cutoff = 0
    /\ tf_responses = << >>
    /\ tf_filtered = << >>

\* calculate_cutoff_times has not run
CutoffIdle ==
    /\ ct_now = 0
    /\ ct_result = << >>

\* parse_rfc822_size has not run
SizeIdle ==
    /\ sz_data = << >>
    /\ sz_size = 0

\* configurations: SPAM_FOLDER_NAME is read only when the preview is off
Configs ==
    { << sim, TRUE, "[Google Mail]/Spam" >> : sim \in BOOLEAN }
      \cup { << sim, FALSE, name >> : sim \in BOOLEAN, name \in ConfigFolderNames }

InitLocals ==
    /\ server_ok = {}
    /\ spam_candidate_names = << >>
    /\ selectable_folders = << >>
    /\ selected_folder = ""
    /\ email_uids = {}
    /\ new_email_uids = {}
    /\ spam_candidates = {}
    /\ downloaded_files = {}
    /\ response = ""
    /\ fwd_first_run = FALSE

Init ==
    /\ \E c \in Configs :
          /\ SIMULATION_MODE = c[1]
          /\ PREVIEW_ALL_FOLDERS = c[2]
          /\ SPAM_FOLDER_NAME = c[3]
    /\ sent_uids_file = {}
    /\ folder_cache_file \in CacheFileContents
    /\ first_run_flag = FALSE
    /\ is_first_run \in BOOLEAN
    /\ pc = "start"
    /\ mail = "none"
    /\ InitLocals
    /\ smtp_result = "none"
    /\ cmdlog = {}
    /\ outbox = {}
    /\ dispatched = {}
    /\ disk = {}
    /\ unreliable_store = FALSE
    /\ retry_uids = {}
    /\ cls_name = ""
    /\ cls_forbidden = FALSE
    /\ cls_spam = FALSE
    /\ ConfigDefaults
    /\ TriageIdle
    /\ TimeFilterIdle
    /\ CutoffIdle
    /\ SizeIdle

(***************************************************************************)
(* Leaving process_spam_iteration: what run_spam_processor does next.      *)
(***************************************************************************)
ResetLocals ==
    /\ server_ok' = {}
    /\ spam_candidate_names' = << >>
    /\ selectable_folders' = << >>
    /\ selected_folder' = ""
    /\ email_uids' = {}
    /\ new_email_uids' = {}
    /\ spam_candidates' = {}
    /\ downloaded_files' = {}
    /\ response' = ""
    /\ fwd_first_run' = FALSE

\* the iteration returned: first-run status is cleared, the loop waits
EndReturned ==
    /\ pc' = "wait"
    /\ is_first_run' = FALSE
    /\ ResetLocals

\* the error is fatal on every run, not on the first only
EndRaisedSpamMailboxAlwaysFatal ==
    /\ pc' = "exited"
    /\ UNCHANGED is_first_run
    /\ ResetLocals

\* the error never ends the process, not even on the first run
EndRaisedSpamMailboxNeverFatal ==
    /\ pc' = "wait"
    /\ UNCHANGED is_first_run
    /\ ResetLocals

\* the iteration raised an IMAP4.error whose text names the spam mailbox
EndRaisedSpamMailbox ==
    /\ pc' = IF is_first_run THEN "exited" ELSE "wait"
    /\ UNCHANGED is_first_run
    /\ ResetLocals

\* the iteration raised another exception: logged, the loop waits
EndRaisedOther ==
    /\ pc' = "wait"
    /\ UNCHANGED is_first_run
    /\ ResetLocals

\* sys.exit(1)
EndExit ==
    /\ pc' = "exited"
    /\ UNCHANGED is_first_run
    /\ ResetLocals

\* KeyboardInterrupt: the process shuts down (sys.exit(1) at a prompt, break
\* out of the loop elsewhere)
EndInterrupted ==
    /\ pc' = "interrupted"
    /\ UNCHANGED is_first_run
    /\ ResetLocals

\* the folder is chosen: the search runs on it (the listing, the numbered
\* list and the server's answers to SELECT are not read again)
EnterSearch(folder_name) ==
    /\ pc' = "search"
    /\ selected_folder' = folder_name
    /\ server_ok' = {}
    /\ spam_candidate_names' = << >>
    /\ selectable_folders' = << >>
    /\ UNCHANGED << mail, is_first_run, email_uids, new_email_uids,
                    spam_candidates, downloaded_files, fwd_first_run >>

(***************************************************************************)
(* The IMAP commands behind the calls recorded in cmdlog.                  *)
(***************************************************************************)
\* every folder is opened with readonly left out
imap_command_read_write(call) ==
    CASE call = "SELECT"  -> "SELECT"
      [] call = "EXAMINE" -> "EXAMINE"
      [] call = "STATUS"  -> "STATUS"
      [] call = "SEARCH"  -> "UID SEARCH"
      [] call = "FETCH"   -> "FETCH"

\* the command sent for a call: mail.select(name, readonly=True) at lines
\* 901, 1667, 1762, 1907 and 2068 sends EXAMINE, mail.examine at 841 is
\* EXAMINE, mail.status at 825, 1691 and 1783 is STATUS, mail.uid('SEARCH')
\* at 1063 is UID SEARCH, and mail.fetch at 908 and mail.uid('FETCH') at
\* 1096, 1290, 1296, 1325 and 1414 ask for INTERNALDATE, RFC822.SIZE and
\* BODY.PEEK sections only
imap_command(call) ==
    CASE call = "SELECT"  -> "EXAMINE"
      [] call = "EXAMINE" -> "EXAMINE"
      [] call = "STATUS"  -> "STATUS"
      [] call = "SEARCH"  -> "UID SEARCH"
      [] call = "FETCH"   -> "FETCH"

\* the calls that open a folder
OpeningCalls == { "SELECT", "EXAMINE" }

\* mail.close() after a folder was opened: CLOSE removes the messages
\* flagged \Deleted unless the folder was opened with EXAMINE
close_expunges(open_command) == open_command # "EXAMINE"

\* IMAP commands that change a mailbox or a message, opening a folder for
\* writing included
MutatingCommands ==
    { "SELECT", "STORE", "UID STORE", "COPY", "UID COPY", "MOVE", "UID MOVE",
      "EXPUNGE", "APPEND", "DELETE", "RENAME", "CREATE" }

(***************************************************************************)
(* Phase 1: connect, list the folders, preview them.                       *)
(***************************************************************************)
\* list_all_folders: the names with SPAM or JUNK and without INBOX
SpamCandidateNames(listing) ==
    SelectSeq(listing, LAMBDA n : n \in ListCandidateNames)

\* commands get_message_count sends for one folder: STATUS, then EXAMINE
\* when STATUS gave no count
get_message_count(folder_name, ok) ==
    IF folder_name \in ok
    THEN { << "STATUS", folder_name >> }
    ELSE { << "STATUS", folder_name >>, << "EXAMINE", folder_name >> }

\* commands get_most_recent_email_info sends for one folder
get_most_recent_email_info(folder_name) ==
    { << "SELECT", folder_name >>, << "FETCH", folder_name >> }

\* commands display_folder_counts sends: every listed folder that is not
\* forbidden is counted, and read when it holds a message
display_folder_counts(all_folder_names, ok) ==
    UNION { get_message_count(f, ok)
              \cup (IF f \in ok /\ MsgCount(f) > 0
                    THEN get_most_recent_email_info(f) ELSE {})
            : f \in { n \in SeqToSet(all_folder_names) : n \notin ForbiddenNames } }

\* an empty listing ends the process on every run
ConnectAndListEmptyListingFatal ==
    /\ pc = "start"
    /\ \E connected \in BOOLEAN, listing \in ListOptions, ok \in SelectOkOptions :
         IF ~ connected
         THEN \* connect_imap raised: logged, the iteration returns
              /\ listing = << >> /\ ok = {}
              /\ mail' = "none"
              /\ cmdlog' = {}
              /\ EndReturned
         ELSE IF listing = << >>
         THEN \* no folder list: logout and exit
              /\ ok = {}
              /\ mail' = "out"
              /\ cmdlog' = {}
              /\ EndExit
         ELSE /\ mail' = "in"
              /\ cmdlog' = IF listing # << >> /\ PREVIEW_ALL_FOLDERS
                           THEN display_folder_counts(listing, ok) ELSE {}
              /\ server_ok' = ok
              /\ spam_candidate_names' = SpamCandidateNames(listing)
              /\ pc' = "select"
              /\ UNCHANGED << is_first_run, selectable_folders, selected_folder,
                              email_uids, new_email_uids, spam_candidates,
                              downloaded_files, response, fwd_first_run >>
    /\ smtp_result' = "none"
    /\ UNCHANGED << config_vars, file_vars, outbox, dispatched, disk, unreliable_store, retry_uids,
                    fn_vars >>

ConnectAndList ==
    /\ pc = "start"
    /\ \E connected \in BOOLEAN, listing \in ListOptions, ok \in SelectOkOptions :
         IF ~ connected
         THEN \* connect_imap raised: logged, the iteration returns
              /\ listing = << >> /\ ok = {}
              /\ mail' = "none"
              /\ cmdlog' = {}
              /\ EndReturned
         ELSE IF is_first_run /\ listing = << >>
         THEN \* first run without a folder list: logout and exit
              /\ ok = {}
              /\ mail' = "out"
              /\ cmdlog' = {}
              /\ EndExit
         ELSE /\ mail' = "in"
              /\ cmdlog' = IF listing # << >> /\ PREVIEW_ALL_FOLDERS
                           THEN display_folder_counts(listing, ok) ELSE {}
              /\ server_ok' = ok
              /\ spam_candidate_names' = SpamCandidateNames(listing)
              /\ pc' = "select"
              /\ UNCHANGED << is_first_run, selectable_folders, selected_folder,
                              email_uids, new_email_uids, spam_candidates,
                              downloaded_files, response, fwd_first_run >>
    /\ smtp_result' = "none"
    /\ UNCHANGED << config_vars, file_vars, outbox, dispatched, disk, unreliable_store, retry_uids,
                    fn_vars >>

(***************************************************************************)
(* Spam folder selection.                                                  *)
(***************************************************************************)
\* load_spam_folder_cache: the stripped text of the file, "" for None
load_spam_folder_cache(file) == StrStrip(file)

\* save_spam_folder_cache: the file holds the name as given
save_spam_folder_cache(folder_name) == folder_name

RECURSIVE Dedupe(_)
\* "if x not in spam_folders: spam_folders.append(x)"
Dedupe(seq) ==
    IF seq = << >> THEN << >>
    ELSE LET front == Dedupe(SubSeq(seq, 1, Len(seq) - 1))
             last == seq[Len(seq)]
         IN  IF last \in SeqToSet(front) THEN front ELSE Append(front, last)

\* the first pass of the preview branch: can_select of one name
CanSelect(folder_name, ok) ==
    /\ folder_name \notin ForbiddenNames
    /\ folder_name \in ok
    /\ folder_name \notin InboxNames
    /\ folder_name \in SpamNames

\* commands of the first pass for one name
FirstPassCommands(folder_name, ok) ==
    IF folder_name \in ForbiddenNames THEN {}
    ELSE IF CanSelect(folder_name, ok)
    THEN { << "SELECT", folder_name >>, << "STATUS", folder_name >> }
    ELSE { << "SELECT", folder_name >> }

default_folder == "[Google Mail]/Spam"

RECURSIVE ByCountDown(_, _)
\* the names of seq with count c, then those with smaller counts (stable)
ByCountDown(seq, c) ==
    IF c < 0 THEN << >>
    ELSE SelectSeq(seq, LAMBDA n : MsgCount(n) = c) \o ByCountDown(seq, c - 1)

\* selectable_folders.sort(key = (name != default_folder, -count))
SortSelectable(seq) ==
    SelectSeq(seq, LAMBDA n : n = default_folder)
      \o ByCountDown(SelectSeq(seq, LAMBDA n : n # default_folder), MaxUid)

\* find_and_select_spam_folder up to its prompt; probe holds the command of
\* the cached-folder probe, if one was sent
FindAndSelect(probe) ==
    IF ~ PREVIEW_ALL_FOLDERS
    THEN IF SPAM_FOLDER_NAME \in ForbiddenNames \/ SPAM_FOLDER_NAME \notin SpamNames
         THEN \* SECURITY VIOLATION: handled by _handle_imap_error
              /\ cmdlog' = probe
              /\ mail' = "out"
              /\ EndReturned
         ELSE IF SPAM_FOLDER_NAME \notin server_ok
         THEN \* "Failed to select spam mailbox": logout and re-raise
              /\ cmdlog' = probe \cup { << "SELECT", SPAM_FOLDER_NAME >> }
              /\ mail' = "out"
              /\ EndRaisedSpamMailbox
         ELSE /\ cmdlog' = probe \cup { << "SELECT", SPAM_FOLDER_NAME >>,
                                        << "STATUS", SPAM_FOLDER_NAME >> }
              /\ pc' = "prompt_use"
              /\ UNCHANGED << mail, is_first_run, local_vars >>
    ELSE LET spam_folders ==
                 Dedupe(spam_candidate_names \o COMMON_SPAM_FOLDER_NAMES)
             selectable ==
                 SelectSeq(spam_folders, LAMBDA n : CanSelect(n, server_ok))
             log1 == probe \cup UNION { FirstPassCommands(n, server_ok)
                                        : n \in SeqToSet(spam_folders) }
         IN  IF selectable = << >>
             THEN \* no selectable spam mailbox: logout and re-raise
                  /\ cmdlog' = log1
                  /\ mail' = "out"
                  /\ EndRaisedSpamMailbox
             ELSE IF default_folder \notin SeqToSet(selectable)
             THEN \* default_index is None: "default_index + 1" raises
                  \* TypeError, caught as a plain exception; logout, return
                  /\ cmdlog' = log1
                  /\ mail' = "out"
                  /\ EndReturned
             ELSE /\ cmdlog' = log1
                  /\ selectable_folders' = SortSelectable(selectable)
                  /\ pc' = "prompt_number"
                  /\ UNCHANGED << mail, is_first_run, server_ok,
                                  spam_candidate_names, selected_folder,
                                  email_uids, new_email_uids, spam_candidates,
                                  downloaded_files, response, fwd_first_run >>

\* the cache is never consulted: every iteration selects afresh
SelectFolderIgnoringCache ==
    /\ pc = "select"
    /\ FindAndSelect({})
    /\ UNCHANGED << config_vars, file_vars, outbox, dispatched, disk, unreliable_store, retry_uids,
                    smtp_result, fn_vars >>

\* process_spam_iteration, lines 2056-2074
SelectFolder ==
    /\ pc = "select"
    /\ LET cached == load_spam_folder_cache(folder_cache_file)
       IN  IF cached = "" \/ is_first_run
           THEN FindAndSelect({})
           ELSE IF cached \in server_ok
           THEN \* the cached folder is selected without prompting
                /\ cmdlog' = { << "SELECT", cached >> }
                /\ EnterSearch(cached)
                /\ UNCHANGED response
           ELSE FindAndSelect({ << "SELECT", cached >> })
    /\ UNCHANGED << config_vars, file_vars, outbox, dispatched, disk, unreliable_store, retry_uids,
                    smtp_result, fn_vars >>

\* the state in which find_and_select_spam_folder, called for a fresh
\* selection with the folder preview on, finds no selectable spam folder
NoSelectableFolder ==
    /\ pc = "select"
    /\ PREVIEW_ALL_FOLDERS
    /\ \/ load_spam_folder_cache(folder_cache_file) = ""
       \/ is_first_run
       \/ load_spam_folder_cache(folder_cache_file) \notin server_ok
    /\ SelectSeq(Dedupe(spam_candidate_names \o COMMON_SPAM_FOLDER_NAMES),
                 LAMBDA n : CanSelect(n, server_ok)) = << >>

\* the "Use this spam folder? (yes/no) [yes]" prompt; answers are the
\* stripped, lower-cased input line, "interrupt" and "eof" the exceptions
\* input() raises
UseFolderAnswers == { "", "yes", "y", "no", "n", "other", "interrupt", "eof" }

AnswerUseFolder ==
    /\ pc = "prompt_use"
    /\ \E r \in UseFolderAnswers :
         IF r \in { "", "yes", "y" }
         THEN /\ folder_cache_file' = save_spam_folder_cache(SPAM_FOLDER_NAME)
              /\ response' = r
              /\ EnterSearch(SPAM_FOLDER_NAME)
         ELSE IF r \in { "no", "n" }
         THEN \* "Folder selection cancelled by user.": sys.exit(1)
              /\ EndExit
              /\ UNCHANGED << mail, folder_cache_file >>
         ELSE IF r = "interrupt"
         THEN /\ EndInterrupted
              /\ UNCHANGED << mail, folder_cache_file >>
         ELSE IF r = "eof"
         THEN \* EOFError becomes "Failed to select spam mailbox" (line 1734)
              /\ mail' = "out"
              /\ EndRaisedSpamMailbox
              /\ UNCHANGED folder_cache_file
         ELSE \* "Please enter 'yes' or 'no'."
              /\ response' = r
              /\ UNCHANGED << pc, mail, is_first_run, folder_cache_file,
                              server_ok, spam_candidate_names,
                              selectable_folders, selected_folder, email_uids,
                              new_email_uids, spam_candidates,
                              downloaded_files, fwd_first_run >>
    /\ cmdlog' = {}
    /\ UNCHANGED << config_vars, sent_uids_file, first_run_flag, outbox, dispatched, disk,
                    unreliable_store, retry_uids, smtp_result, fn_vars >>

\* the numbered prompt: kind of the input line and, for a number, its value
NumberAnswers == { "empty", "number", "other", "interrupt", "eof" }

AnswerFolderNumber ==
    /\ pc = "prompt_number"
    /\ \E r \in NumberAnswers, selection \in 0..(Len(selectable_folders) + 1) :
         /\ r # "number" => selection = 0
         /\ IF /\ r = "number"
               /\ selection \in 1..Len(selectable_folders)
               /\ selectable_folders[selection] \notin ForbiddenNames
               /\ selectable_folders[selection] \in SpamNames
            THEN LET chosen == selectable_folders[selection]
                 IN  IF chosen \in server_ok
                     THEN /\ cmdlog' = { << "SELECT", chosen >> }
                          /\ folder_cache_file' = save_spam_folder_cache(chosen)
                          /\ response' = r
                          /\ EnterSearch(chosen)
                     ELSE /\ cmdlog' = { << "SELECT", chosen >> }
                          /\ mail' = "out"
                          /\ EndRaisedSpamMailbox
                          /\ UNCHANGED folder_cache_file
            ELSE IF r = "interrupt"
            THEN /\ EndInterrupted
                 /\ cmdlog' = {}
                 /\ UNCHANGED << mail, folder_cache_file >>
            ELSE IF r = "eof"
            THEN \* EOFError is not caught by the prompt loop: logout, return
                 /\ mail' = "out"
                 /\ cmdlog' = {}
                 /\ EndReturned
                 /\ UNCHANGED folder_cache_file
            ELSE \* empty line, not a number, out of range: asked again
                 /\ response' = r
                 /\ cmdlog' = {}
                 /\ UNCHANGED << pc, mail, is_first_run, folder_cache_file,
                                 server_ok, spam_candidate_names,
                                 selectable_folders, selected_folder,
                                 email_uids, new_email_uids, spam_candidates,
                                 downloaded_files, fwd_first_run >>
    /\ UNCHANGED << config_vars, sent_uids_file, first_run_flag, outbox, dispatched, disk,
                    unreliable_store, retry_uids, smtp_result, fn_vars >>

(***************************************************************************)
(* Dedup registry.  A uid is the decimal text of the UID SEARCH response;  *)
(* uid.decode(), the "uid\n" line written and line.strip() read back give  *)
(* the same text for such a token, so the file is the set of its uids.     *)
(* read_ok / write_ok: whether open() and the read or write succeeded.     *)
(***************************************************************************)
load_sent_uids(file, read_ok) == IF read_ok THEN file ELSE {}

save_sent_uids(file, sent_uids, write_ok) == IF write_ok THEN sent_uids ELSE file

add_sent_uids(file, new_uids, read_ok, write_ok) ==
    save_sent_uids(file, load_sent_uids(file, read_ok) \cup new_uids, write_ok)

\* the registry filter left out: every uid found counts as new
FilterAlreadySentNothing(uids, sent_uids) == uids

\* process_spam_iteration, lines 2100-2108: the registry filter
FilterAlreadySent(uids, sent_uids) == { uid \in uids : uid \notin sent_uids }

(***************************************************************************)
(* Phase 1, continued: search, registry filter, time filter, triage.       *)
(***************************************************************************)
SearchMessages ==
    /\ pc = "search"
    /\ \E read_ok \in BOOLEAN, search_ok \in BOOLEAN :
         /\ ~ read_ok => (unreliable_store /\ sent_uids_file # {})
         /\ LET sent_uids == load_sent_uids(sent_uids_file, read_ok)
                found == IF search_ok THEN Mailbox(selected_folder) ELSE {}
                fresh == FilterAlreadySent(found, sent_uids)
            IN  /\ cmdlog' = { << "SEARCH", selected_folder >> }
                /\ IF fresh = {}
                   THEN \* nothing (new) found: logout, return
                        /\ mail' = "out"
                        /\ EndReturned
                   ELSE /\ email_uids' = found
                        /\ new_email_uids' = fresh
                        /\ pc' = "filter"
                        /\ UNCHANGED << mail, is_first_run, server_ok,
                                        spam_candidate_names,
                                        selectable_folders, selected_folder,
                                        spam_candidates, downloaded_files,
                                        response, fwd_first_run >>
    /\ UNCHANGED << config_vars, file_vars, outbox, dispatched, disk, unreliable_store, retry_uids,
                    smtp_result, fn_vars >>

\* filter_messages_by_time and analyze_message_headers: the server's
\* INTERNALDATE and header responses decide which uids are kept
FilterAndAnalyze ==
    /\ pc = "filter"
    /\ \E kept \in SUBSET new_email_uids :
         /\ cmdlog' = { << "FETCH", selected_folder >> }
         /\ IF kept = {}
            THEN /\ mail' = "out"
                 /\ EndReturned
            ELSE /\ spam_candidates' = kept
                 /\ pc' = "download"
                 /\ UNCHANGED << mail, is_first_run, server_ok,
                                 spam_candidate_names, selectable_folders,
                                 selected_folder, email_uids, new_email_uids,
                                 downloaded_files, response, fwd_first_run >>
    /\ UNCHANGED << config_vars, file_vars, outbox, dispatched, disk, unreliable_store, retry_uids,
                    smtp_result, fn_vars >>

(***************************************************************************)
(* Phase 2: download, close the session; entry of forward_to_spamcop.      *)
(***************************************************************************)
\* the marker file is not consulted: every live forward counts as the first
IsFirstForwardIgnoringMarker(flag, simulation) == ~ simulation

\* forward_to_spamcop, line 2226
IsFirstForward(flag, simulation) == ~ flag /\ ~ simulation

DownloadMessages ==
    /\ pc = "download"
    /\ \E files \in SUBSET spam_candidates, teardown_ok \in BOOLEAN :
         /\ disk' = disk \cup files
         /\ cmdlog' = { << "FETCH", selected_folder >> }
         /\ IF ~ teardown_ok
            THEN \* mail.close() or mail.logout() raised out of the iteration
                 /\ mail' = "in"
                 /\ EndRaisedOther
            ELSE IF files = {}
            THEN \* "Skipping send."
                 /\ mail' = "out"
                 /\ EndReturned
            ELSE /\ mail' = "out"
                 /\ downloaded_files' = files
                 /\ fwd_first_run' = IsFirstForward(first_run_flag, SIMULATION_MODE)
                 /\ pc' = IF IsFirstForward(first_run_flag, SIMULATION_MODE)
                          THEN "confirm" ELSE "dispatch"
                 /\ UNCHANGED << is_first_run, server_ok, spam_candidate_names,
                                 selectable_folders, selected_folder,
                                 email_uids, new_email_uids, spam_candidates,
                                 response >>
    /\ UNCHANGED << config_vars, file_vars, outbox, dispatched, unreliable_store, retry_uids,
                    smtp_result, fn_vars >>

(***************************************************************************)
(* First-run confirmation.                                                 *)
(***************************************************************************)
\* the stripped, lower-cased input line; "eof" is input() raising EOFError
ConfirmAnswers == { "yes", "y", "no", "n", "", "other", "eof" }

\* only no/n declines; every other answer counts as consent
ConfirmVerdictLenient(r) ==
    IF r \in { "no", "n" } THEN "cancelled" ELSE "confirmed"

\* _handle_first_run_confirmation: what one answer does
ConfirmVerdict(r) ==
    IF r \in { "yes", "y" } THEN "confirmed"
    ELSE IF r \in { "no", "n" } THEN "cancelled"
    ELSE "ask_again"

\* the marker written as soon as the operator has decided, whatever the answer
MarkerAfterAnswerAnyVerdict(flag, verdict, written) ==
    IF verdict # "ask_again" THEN written ELSE flag

\* _handle_first_run_confirmation, lines 2294-2303: the marker file is
\* written on an affirmative answer only (written: the write succeeded)
MarkerAfterAnswer(flag, verdict, written) ==
    IF verdict = "confirmed" THEN written ELSE flag

AnswerConfirm ==
    /\ pc = "confirm"
    /\ \E r \in ConfirmAnswers, flag_written \in BOOLEAN :
         IF r = "eof"
         THEN /\ flag_written
              /\ EndRaisedOther
              /\ UNCHANGED << first_run_flag, smtp_result >>
         ELSE IF ConfirmVerdict(r) = "confirmed"
         THEN \* the marker is written (a failed write is only warned about)
              /\ first_run_flag' = MarkerAfterAnswer(first_run_flag, "confirmed",
                                                    flag_written)
              /\ UNCHANGED smtp_result
              /\ response' = r
              /\ pc' = "dispatch"
              /\ UNCHANGED << is_first_run, server_ok, spam_candidate_names,
                              selectable_folders, selected_folder, email_uids,
                              new_email_uids, spam_candidates,
                              downloaded_files, fwd_first_run >>
         ELSE IF ConfirmVerdict(r) = "cancelled"
         THEN \* forward_to_spamcop returns at line 2230: nothing is sent
              /\ flag_written
              /\ EndReturned
              /\ first_run_flag' = MarkerAfterAnswer(first_run_flag, "cancelled",
                                                    flag_written)
              /\ smtp_result' = "cancelled"
         ELSE /\ flag_written
              /\ response' = r
              /\ first_run_flag' = MarkerAfterAnswer(first_run_flag, "ask_again",
                                                    flag_written)
              /\ UNCHANGED << pc, is_first_run, smtp_result, server_ok,
                              spam_candidate_names, selectable_folders,
                              selected_folder, email_uids, new_email_uids,
                              spam_candidates, downloaded_files,
                              fwd_first_run >>
    /\ cmdlog' = {}
    /\ UNCHANGED << config_vars, sent_uids_file, folder_cache_file, mail,
                    outbox, dispatched, disk, unreliable_store, retry_uids, fn_vars >>

(***************************************************************************)
(* Dispatch.                                                               *)
(***************************************************************************)
\* the registry updated without looking at the dispatch result
RegistryAfterForwardAnyResult(file, simulation, success, candidates, read_ok, write_ok) ==
    IF ~ simulation /\ candidates # {}
    THEN add_sent_uids(file, candidates, read_ok, write_ok)
    ELSE file

\* the registry updated in simulation mode too
RegistryAfterForwardAlsoSimulated(file, simulation, success, candidates, read_ok, write_ok) ==
    IF success /\ candidates # {}
    THEN add_sent_uids(file, candidates, read_ok, write_ok)
    ELSE file

\* the dispatch result tested the wrong way round
RegistryAfterForwardOnFailure(file, simulation, success, candidates, read_ok, write_ok) ==
    IF ~ simulation /\ ~ success /\ candidates # {}
    THEN add_sent_uids(file, candidates, read_ok, write_ok)
    ELSE file

\* forward_to_spamcop, lines 2243-2252: the registry after the dispatch step
RegistryAfterForward(file, simulation, success, candidates, read_ok, write_ok) ==
    IF ~ simulation /\ success /\ candidates # {}
    THEN add_sent_uids(file, candidates, read_ok, write_ok)
    ELSE file

Dispatch ==
    /\ pc = "dispatch"
    /\ \E success \in BOOLEAN, read_ok \in BOOLEAN, write_ok \in BOOLEAN :
         /\ (SIMULATION_MODE \/ ~ success \/ ~ unreliable_store)
               => (read_ok /\ write_ok)
         /\ SIMULATION_MODE => success
         /\ ~ read_ok => sent_uids_file # {}
         /\ sent_uids_file' =
                RegistryAfterForward(sent_uids_file, SIMULATION_MODE, success,
                                     spam_candidates, read_ok, write_ok)
         /\ IF SIMULATION_MODE
            THEN \* _print_simulation_mode_info: nothing is sent
                 /\ smtp_result' = "simulated"
                 /\ UNCHANGED << outbox, dispatched, retry_uids >>
            ELSE IF success
            THEN \* _send_to_spamcop delivered one bundle of all the files
                 /\ smtp_result' = "sent"
                 /\ outbox' = outbox \cup downloaded_files
                 /\ dispatched' = dispatched \cup
                        { << selected_folder, uid >> : uid \in downloaded_files }
                 /\ retry_uids' = retry_uids \ spam_candidates
            ELSE /\ smtp_result' = "failed"
                 /\ retry_uids' = retry_uids \cup spam_candidates
                 /\ UNCHANGED << outbox, dispatched >>
    /\ cmdlog' = {}
    /\ EndReturned
    /\ UNCHANGED << config_vars, folder_cache_file, first_run_flag, mail,
                    disk, unreliable_store, fn_vars >>

(***************************************************************************)
(* The idle wait between iterations.                                       *)
(***************************************************************************)
\* the shutdown on an interrupt rewrites the registry as an empty file
WaitInterruptTruncatesRegistry ==
    /\ pc = "wait"
    /\ \E interrupted \in BOOLEAN :
         /\ pc' = IF interrupted THEN "interrupted" ELSE "start"
         /\ sent_uids_file' = IF interrupted THEN {} ELSE sent_uids_file
    /\ cmdlog' = {}
    /\ UNCHANGED << config_vars, folder_cache_file, first_run_flag, is_first_run,
                    mail, local_vars, outbox, dispatched, disk, unreliable_store, retry_uids,
                    smtp_result, fn_vars >>

Wait ==
    /\ pc = "wait"
    /\ \E interrupted \in BOOLEAN :
         pc' = IF interrupted THEN "interrupted" ELSE "start"
    /\ cmdlog' = {}
    /\ UNCHANGED << config_vars, file_vars, is_first_run, mail, local_vars,
                    outbox, dispatched, disk, unreliable_store, retry_uids, smtp_result, fn_vars >>

Next ==
    \/ ConnectAndList
    \/ SelectFolder
    \/ AnswerUseFolder
    \/ AnswerFolderNumber
    \/ SearchMessages
    \/ FilterAndAnalyze
    \/ DownloadMessages
    \/ AnswerConfirm
    \/ Dispatch
    \/ Wait

Spec == Init /\ [][Next]_vars

\* the same program over a registry file whose reads and writes can fail
InitStoreFault ==
    /\ \E c \in Configs :
          /\ SIMULATION_MODE = c[1]
          /\ PREVIEW_ALL_FOLDERS = c[2]
          /\ SPAM_FOLDER_NAME = c[3]
    /\ sent_uids_file = {}
    /\ folder_cache_file \in CacheFileContents
    /\ first_run_flag = FALSE
    /\ is_first_run \in BOOLEAN
    /\ pc = "start"
    /\ mail = "none"
    /\ InitLocals
    /\ smtp_result = "none"
    /\ cmdlog = {}
    /\ outbox = {}
    /\ dispatched = {}
    /\ disk = {}
    /\ unreliable_store = TRUE
    /\ retry_uids = {}
    /\ cls_name = ""
    /\ cls_forbidden = FALSE
    /\ cls_spam = FALSE
    /\ ConfigDefaults
    /\ TriageIdle
    /\ TimeFilterIdle
    /\ CutoffIdle
    /\ SizeIdle

SpecStoreFault == InitStoreFault /\ [][Next]_vars

(***************************************************************************)
(* The classifier on its own: names are put together from parts that vary  *)
(* prefix, case, quoting, separators and trailing blanks, and classified.  *)
(***************************************************************************)
NamePrefixes == { "", "[Gmail]/", "[Google Mail]/", "INBOX/", "inbox\\" }
NameBases == { "Spam", "spam", "Junk", "INBOX", "Drafts", "All Mail", "Work" }
NameSuffixes == { "", "/INBOX", " Drafts", " " }

\* spellings of one name: letter case, quoting, bracket style
CaseVariants(s) == { s, StrUpper(s), StrLower(s) }
QuoteVariants(s) == { s, "\"" \o s \o "\"", "'" \o s \o "'" }
BracketVariants(s) ==
    { s,
      StrReplaceChar(StrReplaceChar(s, "[", ""), "]", ""),
      StrReplaceChar(StrReplaceChar(s, "[", "("), "]", ")") }

\* the members of FORBIDDEN_FOLDERS in every such spelling
ForbiddenVariantNames ==
    UNION { UNION { UNION { QuoteVariants(b) : b \in BracketVariants(c) }
                    : c \in CaseVariants(m) }
            : m \in FORBIDDEN_FOLDERS }

ClassifierNames ==
    { p \o b \o x : p \in NamePrefixes, b \in NameBases, x \in NameSuffixes }
      \cup { "\"" \o p \o b \o x \o "\"" :
               p \in NamePrefixes, b \in NameBases, x \in NameSuffixes }
      \cup ForbiddenVariantNames

InitClassifier ==
    /\ SIMULATION_MODE = TRUE
    /\ PREVIEW_ALL_FOLDERS = FALSE
    /\ SPAM_FOLDER_NAME = default_folder
    /\ sent_uids_file = {}
    /\ folder_cache_file = ""
    /\ first_run_flag = FALSE
    /\ is_first_run = TRUE
    /\ pc = "classify"
    /\ mail = "none"
    /\ InitLocals
    /\ smtp_result = "none"
    /\ cmdlog = {}
    /\ outbox = {}
    /\ dispatched = {}
    /\ disk = {}
    /\ unreliable_store = FALSE
    /\ retry_uids = {}
    /\ cls_name = ""
    /\ cls_forbidden = is_forbidden_folder("")
    /\ cls_spam = is_spam_folder("")
    /\ ConfigDefaults
    /\ TriageIdle
    /\ TimeFilterIdle
    /\ CutoffIdle
    /\ SizeIdle

Classify ==
    /\ pc = "classify"
    /\ pc' = "classified"
    /\ \E n \in ClassifierNames :
         /\ cls_name' = n
         /\ cls_forbidden' = is_forbidden_folder(n)
         /\ cls_spam' = is_spam_folder(n)
    /\ UNCHANGED << config_vars, file_vars, is_first_run, mail,
                    local_vars, env_vars, startup_vars, triage_config_vars,
                    trg_vars, tf_vars, ct_vars, sz_vars >>

SpecClassifier == InitClassifier /\ [][Classify]_vars

(***************************************************************************)
(* The run loop at rest: what the runs of single functions leave alone.    *)
(***************************************************************************)
LoopIdle ==
    /\ SIMULATION_MODE = TRUE
    /\ PREVIEW_ALL_FOLDERS = FALSE
    /\ SPAM_FOLDER_NAME = default_folder
    /\ sent_uids_file = {}
    /\ folder_cache_file = ""
    /\ first_run_flag = FALSE
    /\ is_first_run = TRUE
    /\ mail = "none"
    /\ InitLocals
    /\ smtp_result = "none"
    /\ cmdlog = {}
    /\ outbox = {}
    /\ dispatched = {}
    /\ disk = {}
    /\ unreliable_store = FALSE
    /\ retry_uids = {}
    /\ cls_name = ""
    /\ cls_forbidden = FALSE
    /\ cls_spam = FALSE

(***************************************************************************)
(* More Python str methods, used by the keyword rules.                     *)
(***************************************************************************)
\* s.split('@', 1)[1] when '@' is in s, '' otherwise
RECURSIVE SenderDomain(_)
SenderDomain(s) ==
    IF Len(s) = 0 THEN ""
    ELSE IF SubSeq(s, 1, 1) = "@" THEN SubSeq(s, 2, Len(s))
    ELSE SenderDomain(SubSeq(s, 2, Len(s)))

(***************************************************************************)
(* validate_keyword_conflicts.                                             *)
(***************************************************************************)
\* [kw.lower().strip() for kw in keywords if kw and kw.strip()]
NormalizedKeywords(keywords) ==
    { StrLower(StrStrip(keywords[i])) :
        i \in { j \in 1..Len(keywords) : StrStrip(keywords[j]) # "" } }

\* only exact matches are looked for
validate_keyword_conflicts_exact(excluded_keywords, force_include_keywords) ==
    \E excluded \in NormalizedKeywords(excluded_keywords),
       force_include \in NormalizedKeywords(force_include_keywords) :
          excluded = force_include

\* TRUE when the function raises ValueError: the conflicts list is not empty
validate_keyword_conflicts(excluded_keywords, force_include_keywords) ==
    \E excluded \in NormalizedKeywords(excluded_keywords),
       force_include \in NormalizedKeywords(force_include_keywords) :
          \/ excluded = force_include
          \/ StrContains(force_include, excluded)
          \/ StrContains(excluded, force_include)

\* an "@domain" entry matches the sender's domain and its sub-domains only
SenderEntryMatchesSuffixOnly(excluded, sender) ==
    LET excluded_lower == StrStrip(StrLower(excluded))
        sender_lower == StrLower(sender)
        sender_domain == SenderDomain(sender_lower)
    IN  IF excluded_lower = "" THEN FALSE
        ELSE IF StrStartsWith(excluded_lower, "@")
        THEN LET excluded_domain == SubSeq(excluded_lower, 2, Len(excluded_lower))
             IN  /\ sender_domain # ""
                 /\ \/ sender_domain = excluded_domain
                    \/ StrEndsWith(sender_domain, "." \o excluded_domain)
        ELSE IF StrStartsWith(excluded_lower, ".")
        THEN sender_domain # "" /\ StrEndsWith(sender_domain, excluded_lower)
        ELSE IF excluded_lower = sender_lower THEN TRUE
        ELSE StrContains(sender_lower, excluded_lower)

(***************************************************************************)
(* Triage of one message: is_email_force_included, is_email_excluded and   *)
(* the part of analyze_message_headers that applies them.                  *)
(***************************************************************************)
\* one entry of EXCLUDED_SENDERS against the sender
SenderEntryMatches(excluded, sender) ==
    LET excluded_lower == StrStrip(StrLower(excluded))
        sender_lower == StrLower(sender)
        sender_domain == SenderDomain(sender_lower)
    IN  IF excluded_lower = "" THEN FALSE
        ELSE IF StrStartsWith(excluded_lower, "@")
        THEN LET excluded_domain == SubSeq(excluded_lower, 2, Len(excluded_lower))
             IN  \/ /\ sender_domain # ""
                    /\ \/ sender_domain = excluded_domain
                       \/ StrEndsWith(sender_domain, "." \o excluded_domain)
                 \/ StrContains(sender_lower, excluded_lower)
        ELSE IF StrStartsWith(excluded_lower, ".")
        THEN sender_domain # "" /\ StrEndsWith(sender_domain, excluded_lower)
        ELSE IF excluded_lower = sender_lower THEN TRUE
        ELSE StrContains(sender_lower, excluded_lower)

\* one keyword against the subject and the body text
KeywordMatches(keyword, subject, body_text) ==
    LET keyword_lower == StrStrip(StrLower(keyword))
        subject_lower == StrLower(subject)
        body_lower == StrLower(body_text)
    IN  /\ keyword_lower # ""
        /\ \/ StrContains(subject_lower, keyword_lower)
           \/ body_lower # "" /\ StrContains(body_lower, keyword_lower)

is_email_excluded(sender, subject, body_text) ==
    \/ \E i \in 1..Len(EXCLUDED_SENDERS) :
          SenderEntryMatches(EXCLUDED_SENDERS[i], sender)
    \/ \E i \in 1..Len(EXCLUDED_SUBJECT_KEYWORDS) :
          KeywordMatches(EXCLUDED_SUBJECT_KEYWORDS[i], subject, body_text)

is_email_force_included(subject, body_text) ==
    /\ FORCE_INCLUDE_KEYWORDS # << >>
    /\ \E i \in 1..Len(FORCE_INCLUDE_KEYWORDS) :
          KeywordMatches(FORCE_INCLUDE_KEYWORDS[i], subject, body_text)

\* the exclusion rules consulted before the force-include keywords
TriageVerdictExclusionFirst(sender, subject, body_text) ==
    IF is_email_excluded(sender, subject, body_text) THEN "excluded"
    ELSE IF is_email_force_included(subject, body_text) THEN "force_included"
    ELSE "identified"

\* the force-include keywords are matched against the sender as well
TriageVerdictSenderMatched(sender, subject, body_text) ==
    IF \/ is_email_force_included(subject, body_text)
       \/ is_email_force_included(sender, "")
    THEN "force_included"
    ELSE IF is_email_excluded(sender, subject, body_text) THEN "excluded"
    ELSE "identified"

\* analyze_message_headers, lines 1333-1349
TriageVerdict(sender, subject, body_text) ==
    IF is_email_force_included(subject, body_text) THEN "force_included"
    ELSE IF is_email_excluded(sender, subject, body_text) THEN "excluded"
    ELSE "identified"

SenderLists ==
    { << >>, << "@Bank.com" >>, << ".gov.au", "bob@x.org" >>, << " ", "promo" >> }
ExcludedKeywordLists == { << >>, << "Newsletter" >>, << " ", "unsubscribe" >> }
ForceKeywordLists ==
    { << >>, << "Invoice" >>, << "", "phishing " >>, << "newsletter deals" >> }

MessageSenders ==
    { "alice@bank.com", "Bob@X.org", "c@ths.tas.gov.au", "promo-list", "d@mail.net",
      "invoice@bank.com", "alice@bank.com.evil.net", "x@a.gov.au.evil.org" }
MessageSubjects ==
    { "Weekly NEWSLETTER", "Your invoice", "Hello", "(No Subject)" }
MessageBodies == { "", "click to unsubscribe", "Phishing alert: invoice" }

InitTriage ==
    /\ LoopIdle
    /\ pc = "analyze"
    /\ LOOP_FREQUENCY_HOURS = << 5 >>
    /\ SPAM_SEARCH_WINDOW_HOURS = << 5 >>
    /\ EXCLUDED_SENDERS \in SenderLists
    /\ EXCLUDED_SUBJECT_KEYWORDS \in ExcludedKeywordLists
    /\ FORCE_INCLUDE_KEYWORDS \in ForceKeywordLists
    \* the module exits at import when the keyword lists conflict
    /\ ~ validate_keyword_conflicts(EXCLUDED_SUBJECT_KEYWORDS,
                                    FORCE_INCLUDE_KEYWORDS)
    /\ TriageIdle
    /\ TimeFilterIdle
    /\ CutoffIdle
    /\ SizeIdle

\* analyze_message_headers for one uid: header_ok, body_ok say whether the
\* header and body fetches gave the text
AnalyzeMessage ==
    /\ pc = "analyze"
    /\ pc' = "analyzed"
    /\ \E sender \in MessageSenders, subject \in MessageSubjects,
          body \in MessageBodies, header_ok \in BOOLEAN, body_ok \in BOOLEAN :
         LET body_text ==
                 IF /\ \/ FORCE_INCLUDE_KEYWORDS # << >>
                       \/ EXCLUDED_SUBJECT_KEYWORDS # << >>
                    /\ body_ok
                 THEN StrLower(body) ELSE ""
         IN  IF ~ header_ok
             THEN \* "Could not fetch header": the uid is skipped
                  /\ body_ok
                  /\ sender = "d@mail.net" /\ subject = "Hello" /\ body = ""
                  /\ trg_verdict' = "no_header"
                  /\ UNCHANGED << trg_sender, trg_subject, trg_body_text >>
             ELSE /\ trg_sender' = sender
                  /\ trg_subject' = subject
                  /\ trg_body_text' = body_text
                  /\ trg_verdict' = TriageVerdict(sender, subject, body_text)
    /\ UNCHANGED << config_vars, file_vars, is_first_run, mail, local_vars,
                    env_vars, cls_vars, startup_vars, triage_config_vars,
                    tf_vars, ct_vars, sz_vars >>

SpecTriage == InitTriage /\ [][AnalyzeMessage]_vars

(***************************************************************************)
(* Start-up: the checks made when the module is loaded and at the top of   *)
(* run_spam_processor, before the first iteration.                         *)
(***************************************************************************)
\* the upper limit is not tested
validate_loop_frequency_unbounded(hours) ==
    hours = << >> \/ hours[1] = 0 \/ hours[1] < 0

\* TRUE when the function raises ValueError
validate_loop_frequency(hours) ==
    \/ hours = << >> \/ hours[1] = 0
    \/ hours[1] > 48
    \/ hours[1] < 0

\* TRUE when the function raises ValueError
validate_search_window(hours) ==
    \/ hours = << >> \/ hours[1] = 0
    \/ hours[1] > 168
    \/ hours[1] < 0

LoopFrequencies == { << >>, << -1 >>, << 0 >>, << 48 >>, << 49 >> }
SearchWindows == { << >>, << -1 >>, << 0 >>, << 168 >>, << 169 >> }

\* pairs << EXCLUDED_SUBJECT_KEYWORDS, FORCE_INCLUDE_KEYWORDS >>
KeywordConfigs ==
    { << << >>, << >> >>,
      << << "ad" >>, << "pay" >> >>,
      << << " " >>, << "scam" >> >>,
      << << "newsletter" >>, << "Newsletter Deals" >> >>,
      << << "Weekly Newsletter" >>, << "invoice", "news" >> >>,
      << << "offer", " Scam" >>, << "scam " >> >> }

InitStartup ==
    /\ \E c \in Configs :
          /\ SIMULATION_MODE = c[1]
          /\ PREVIEW_ALL_FOLDERS = c[2]
          /\ SPAM_FOLDER_NAME = c[3]
    /\ sent_uids_file = {}
    /\ folder_cache_file \in CacheFileContents
    /\ first_run_flag = FALSE
    /\ is_first_run \in BOOLEAN
    /\ pc = "import"
    /\ mail = "none"
    /\ InitLocals
    /\ smtp_result = "none"
    /\ cmdlog = {}
    /\ outbox = {}
    /\ dispatched = {}
    /\ disk = {}
    /\ unreliable_store = FALSE
    /\ retry_uids = {}
    /\ cls_name = ""
    /\ cls_forbidden = FALSE
    /\ cls_spam = FALSE
    /\ LOOP_FREQUENCY_HOURS \in LoopFrequencies
    /\ SPAM_SEARCH_WINDOW_HOURS \in SearchWindows
    /\ EXCLUDED_SENDERS = << >>
    /\ \E k \in KeywordConfigs :
          /\ EXCLUDED_SUBJECT_KEYWORDS = k[1]
          /\ FORCE_INCLUDE_KEYWORDS = k[2]
    /\ TriageIdle
    /\ TimeFilterIdle
    /\ CutoffIdle
    /\ SizeIdle

\* module level, lines 473-480: a keyword conflict ends the process
ImportModule ==
    /\ pc = "import"
    /\ pc' = IF validate_keyword_conflicts(EXCLUDED_SUBJECT_KEYWORDS,
                                           FORCE_INCLUDE_KEYWORDS)
             THEN "exited" ELSE "main"
    /\ UNCHANGED << config_vars, file_vars, is_first_run, mail, local_vars,
                    env_vars, fn_vars >>

\* run_spam_processor, lines 2392-2404: a ValueError makes it return
ValidateConfiguration ==
    /\ pc = "main"
    /\ pc' = IF \/ validate_loop_frequency(LOOP_FREQUENCY_HOURS)
                \/ validate_search_window(SPAM_SEARCH_WINDOW_HOURS)
                \/ validate_keyword_conflicts(EXCLUDED_SUBJECT_KEYWORDS,
                                              FORCE_INCLUDE_KEYWORDS)
             THEN "exited" ELSE "start"
    /\ UNCHANGED << config_vars, file_vars, is_first_run, mail, local_vars,
                    env_vars, fn_vars >>

NextStartup == ImportModule \/ ValidateConfiguration \/ Next

SpecStartup == InitStartup /\ [][NextStartup]_vars

(***************************************************************************)
(* filter_messages_by_time on its own.  Times are seconds; the response to *)
(* one INTERNALDATE fetch is a record: kind says how far the code gets     *)
(* with it, and a "date" carries the wall-clock time and the UTC offset    *)
(* parsedate_to_datetime read (has_tz FALSE: a date without a zone).       *)
(***************************************************************************)
CutoffTimes == { 7200, 86400 }
ZoneOffsets == { 0, 3600, -3600 }
UnresolvedKinds ==
    { "fetch_raised", "fetch_not_ok", "no_internaldate", "parse_raised",
      "parse_none" }

DateResponses(cutoff) ==
    { [kind |-> "date", wall |-> utc + off, has_tz |-> TRUE, offset |-> off] :
        utc \in { cutoff - 1, cutoff, cutoff + 1 }, off \in ZoneOffsets }
      \cup { [kind |-> "date", wall |-> utc, has_tz |-> FALSE, offset |-> 0] :
               utc \in { cutoff - 1, cutoff, cutoff + 1 } }

FetchResponses(cutoff) ==
    DateResponses(cutoff)
      \cup { [kind |-> k, wall |-> 0, has_tz |-> FALSE, offset |-> 0] :
               k \in UnresolvedKinds }

\* lines 1102-1106: astimezone(utc).replace(tzinfo=None), or the date as read
msg_date_utc(r) == IF r.has_tz THEN r.wall - r.offset ELSE r.wall

\* the cutoff instant itself falls outside the window
WithinWindowStrict(date_utc, cutoff_time_utc) == date_utc > cutoff_time_utc

\* line 1109
WithinWindow(date_utc, cutoff_time_utc) == date_utc >= cutoff_time_utc

\* a uid whose date cannot be parsed is left out
KeepUidUnlessUnparsed(r, cutoff_time_utc) ==
    IF r.kind = "date" THEN WithinWindow(msg_date_utc(r), cutoff_time_utc)
    ELSE r.kind \notin { "parse_raised", "parse_none" }

\* lines 1096-1129: whether the uid is appended to filtered_email_uids
KeepUid(r, cutoff_time_utc) ==
    IF r.kind = "date" THEN WithinWindow(msg_date_utc(r), cutoff_time_utc)
    ELSE \* every other branch appends the uid "to be safe"
         TRUE

filter_messages_by_time(responses, cutoff_time_utc) ==
    SelectSeq([i \in 1..MaxUid |-> i],
              LAMBDA uid : KeepUid(responses[uid], cutoff_time_utc))

InitTimeFilter ==
    /\ LoopIdle
    /\ pc = "timefilter"
    /\ ConfigDefaults
    /\ TriageIdle
    /\ tf_cutoff \in CutoffTimes
    /\ tf_responses = << >>
    /\ tf_filtered = << >>
    /\ CutoffIdle
    /\ SizeIdle

FilterMessagesByTime ==
    /\ pc = "timefilter"
    /\ pc' = "timefiltered"
    /\ \E responses \in [1..MaxUid -> FetchResponses(tf_cutoff)] :
         /\ tf_responses' = responses
         /\ tf_filtered' = filter_messages_by_time(responses, tf_cutoff)
    /\ UNCHANGED << config_vars, file_vars, is_first_run, mail, local_vars,
                    env_vars, cls_vars, startup_vars, triage_config_vars,
                    trg_vars, tf_cutoff, ct_vars, sz_vars >>

SpecTimeFilter == InitTimeFilter /\ [][FilterMessagesByTime]_vars

(***************************************************************************)
(* calculate_cutoff_times as a function of the clock and the window.       *)
(***************************************************************************)
SecondsPerHour == 3600
SecondsPerDay == 86400

\* strftime("%d-%b-%Y") of a local time: its calendar day, as the number
\* of the day
strftime_date(t) == t \div SecondsPerDay

\* every window is searched from today's date
calculate_cutoff_times_today(now, search_window_hours, tz_offset_seconds) ==
    LET cutoff_time == now - search_window_hours * SecondsPerHour
    IN  [ now |-> now,
          cutoff_time |-> cutoff_time,
          cutoff_time_utc |-> cutoff_time + tz_offset_seconds,
          date_since |-> IF search_window_hours < 24
                         THEN strftime_date(now)
                         ELSE strftime_date(cutoff_time) ]

\* calculate_cutoff_times, lines 1040-1058; tz_offset_seconds is
\* time.timezone or time.altzone
calculate_cutoff_times(now, search_window_hours, tz_offset_seconds) ==
    LET cutoff_time == now - search_window_hours * SecondsPerHour
    IN  [ now |-> now,
          cutoff_time |-> cutoff_time,
          \* cutoff_time - timedelta(seconds = -tz_offset_seconds)
          cutoff_time_utc |-> cutoff_time + tz_offset_seconds,
          date_since |-> IF search_window_hours < 24
                         THEN strftime_date(now - SecondsPerDay)
                         ELSE strftime_date(cutoff_time) ]

\* windows validate_search_window accepts, in hours
ValidSearchWindows == { 1, 5, 23, 24, 25, 48, 167, 168 }

\* local clock readings: two days, from midnight to the last second
ClockReadings ==
    { d * SecondsPerDay + s :
        d \in { 20, 21 },
        s \in { 0, 1, 3599, 3600, 43200, 82800, 86399 } }

InitCutoff ==
    /\ LoopIdle
    /\ pc = "cutoff"
    /\ LOOP_FREQUENCY_HOURS = << 5 >>
    /\ SPAM_SEARCH_WINDOW_HOURS \in { << w >> : w \in ValidSearchWindows }
    /\ EXCLUDED_SENDERS = << >>
    /\ EXCLUDED_SUBJECT_KEYWORDS = << >>
    /\ FORCE_INCLUDE_KEYWORDS = << >>
    /\ TriageIdle
    /\ TimeFilterIdle
    /\ ct_now \in ClockReadings
    /\ ct_result = << >>
    /\ SizeIdle

CalculateCutoffTimes ==
    /\ pc = "cutoff"
    /\ pc' = "cutoff_done"
    /\ \E tz_offset_seconds \in ZoneOffsets :
         ct_result' = calculate_cutoff_times(ct_now, SPAM_SEARCH_WINDOW_HOURS[1],
                                             tz_offset_seconds)
    /\ UNCHANGED << config_vars, file_vars, is_first_run, mail, local_vars,
                    env_vars, cls_vars, startup_vars, triage_config_vars,
                    trg_vars, tf_vars, ct_now, sz_vars >>

SpecCutoff == InitCutoff /\ [][CalculateCutoffTimes]_vars

(***************************************************************************)
(* parse_rfc822_size on the response of UID FETCH uid (RFC822.SIZE).       *)
(***************************************************************************)
Digits == "0123456789"

IsDigit(c) == \E i \in 1..Len(Digits) : SubSeq(Digits, i, i) = c

\* int() of one decimal digit
DigitValue(c) == (CHOOSE i \in 1..Len(Digits) : SubSeq(Digits, i, i) = c) - 1

RECURSIVE LeadingCount(_, _)
\* the length of the longest prefix of s made of characters of the class
LeadingCount(s, is_digit) ==
    IF Len(s) = 0 THEN 0
    ELSE IF (IF is_digit THEN IsDigit(SubSeq(s, 1, 1)) ELSE SubSeq(s, 1, 1) = " ")
    THEN 1 + LeadingCount(SubSeq(s, 2, Len(s)), is_digit)
    ELSE 0

RECURSIVE StrToNat(_)
\* int() of a string of decimal digits
StrToNat(s) ==
    IF Len(s) = 0 THEN 0
    ELSE StrToNat(SubSeq(s, 1, Len(s) - 1)) * 10
           + DigitValue(SubSeq(s, Len(s), Len(s)))

size_marker == "RFC822.SIZE"

\* re.match(r'RFC822\.SIZE\s+(\d+)') at position i of s: << n >> for the
\* group, << >> for no match
SizeMatchAt(s, i) ==
    IF i + Len(size_marker) - 1 > Len(s) THEN << >>
    ELSE IF SubSeq(s, i, i + Len(size_marker) - 1) # size_marker THEN << >>
    ELSE LET rest == SubSeq(s, i + Len(size_marker), Len(s))
             blanks == LeadingCount(rest, FALSE)
             tail == SubSeq(rest, blanks + 1, Len(rest))
             digits == LeadingCount(tail, TRUE)
         IN  IF blanks = 0 \/ digits = 0 THEN << >>
             ELSE << StrToNat(SubSeq(tail, 1, digits)) >>

\* re.search(r'RFC822\.SIZE\s+(\d+)', size_str): the leftmost match
SizeSearch(size_str) ==
    LET hits == { i \in 1..Len(size_str) : SizeMatchAt(size_str, i) # << >> }
    IN  IF hits = {} THEN << >>
        ELSE SizeMatchAt(size_str, CHOOSE i \in hits : \A j \in hits : i <= j)

\* every item is searched, whatever its shape
RECURSIVE parse_rfc822_size_any_shape(_)
parse_rfc822_size_any_shape(data_size) ==
    IF data_size = << >> THEN 0
    ELSE LET item == data_size[1]
             texts == IF item.shape = "tuple" THEN item.parts
                      ELSE IF item.shape = "none" THEN << >>
                      ELSE << item.text >>
             found == SelectSeq(texts, LAMBDA t : SizeSearch(t) # << >>)
         IN  IF found # << >> THEN SizeSearch(found[1])[1]
             ELSE parse_rfc822_size_any_shape(Tail(data_size))

RECURSIVE parse_rfc822_size(_)
\* parse_rfc822_size, lines 1014-1027: only a tuple of two or more parts is
\* looked at, and of it only the second part; the second pattern of the
\* code matches nothing the first does not
parse_rfc822_size(data_size) ==
    IF data_size = << >> THEN 0
    ELSE LET item == data_size[1]
         IN  IF /\ item.shape = "tuple"
                /\ Len(item.parts) >= 2
                /\ SizeSearch(item.parts[2]) # << >>
             THEN SizeSearch(item.parts[2])[1]
             ELSE parse_rfc822_size(Tail(data_size))

\* items of a FETCH response as imaplib returns them: a bytes or str line,
\* a (header, literal) tuple, None
ResponseItems ==
    { [ shape |-> "bytes", text |-> "1 (UID 5 RFC822.SIZE 1234)" ],
      [ shape |-> "str", text |-> "2 (RFC822.SIZE  87)" ],
      [ shape |-> "bytes", text |-> ")" ],
      [ shape |-> "bytes", text |-> "3 (RFC822.SIZE)" ],
      [ shape |-> "none" ],
      [ shape |-> "tuple", parts |-> << "4 (RFC822.SIZE 60 BODY[] {5}", "hello" >> ],
      [ shape |-> "tuple", parts |-> << "5 (UID 9", "RFC822.SIZE 305)" >> ],
      [ shape |-> "tuple", parts |-> << "6 (RFC822.SIZE 12)" >> ] }

InitSize ==
    /\ LoopIdle
    /\ pc = "size"
    /\ ConfigDefaults
    /\ TriageIdle
    /\ TimeFilterIdle
    /\ CutoffIdle
    /\ sz_data \in UNION { [1..n -> ResponseItems] : n \in 0..2 }
    /\ sz_size = 0

ParseSize ==
    /\ pc = "size"
    /\ pc' = "sized"
    /\ sz_size' = parse_rfc822_size(sz_data)
    /\ UNCHANGED << config_vars, file_vars, is_first_run, mail, local_vars,
                    env_vars, cls_vars, startup_vars, triage_config_vars,
                    trg_vars, tf_vars, ct_vars, sz_data >>

SpecSize == InitSize /\ [][ParseSize]_vars

(***************************************************************************)
(* Properties.                                                             *)
(***************************************************************************)

\* C1: no SELECT, EXAMINE or STATUS is ever attempted on a folder name that
\* is_forbidden_folder rejects, whatever the LIST response, the
\* configuration or the cache file holds.
NoCommandOnForbiddenFolder ==
    \A c \in cmdlog :
        c[1] \in { "SELECT", "EXAMINE", "STATUS" } => ~ is_forbidden_folder(c[2])

\* C2: the selected folder, on which the search and the fetches of the
\* iteration run, is never a forbidden folder.
SelectedFolderNeverForbidden ==
    /\ ~ is_forbidden_folder(selected_folder)
    /\ \A c \in cmdlog :
          c[1] \in { "SEARCH", "FETCH" } => ~ is_forbidden_folder(c[2])

\* C3: a name the forbidden classifier rejects is never a spam candidate
\* for the spam classifier.
ForbiddenNeverSpamCandidate == cls_forbidden => ~ cls_spam

\* C4: folders are opened (SELECT, EXAMINE) and fetched from only if their
\* name is a spam candidate, the folder preview included.
OnlySpamFoldersRead ==
    \A c \in cmdlog :
        c[1] \in { "SELECT", "EXAMINE", "FETCH" }
            => (is_spam_folder(c[2]) /\ ~ is_forbidden_folder(c[2]))

\* C5: the registry file changes only in the dispatch step of an iteration
\* that is not simulated and whose SMTP dispatch succeeded.
RegistryChangesOnlyOnSent ==
    [][ sent_uids_file' # sent_uids_file
          => (pc = "dispatch" /\ ~ SIMULATION_MODE /\ smtp_result' = "sent") ]_vars

RegistryChangedBySent ==
    smtp_result = "sent" /\ sent_uids_file # {} /\ pc = "wait"

\* C6: in simulation mode the registry, empty at the start, stays empty
\* after any number of iterations.
SimulationKeepsRegistryEmpty == SIMULATION_MODE => sent_uids_file = {}

SimulatedDispatchDone ==
    SIMULATION_MODE /\ smtp_result = "simulated" /\ disk # {} /\ pc = "wait"

\* C7: a failed dispatch leaves the registry as it was and the downloaded
\* files on disk, and the uids of its candidates pass the registry filter of
\* every later search that returns them, until a dispatch with them succeeds.
FailedDispatchLeavesCandidatesEligible ==
    /\ [](retry_uids \cap sent_uids_file = {})
    /\ [][ (pc = "dispatch" /\ smtp_result' = "failed")
             => (sent_uids_file' = sent_uids_file /\ downloaded_files \subseteq disk') ]_vars
    /\ [][ disk \subseteq disk' ]_vars
    /\ [][ (pc = "search" /\ email_uids' # {})
             => (retry_uids \cap email_uids') \subseteq new_email_uids' ]_vars

FailedCandidatesSelectedAgain ==
    /\ pc = "download"
    /\ smtp_result = "none"
    /\ retry_uids # {}
    /\ retry_uids \subseteq spam_candidates
    /\ retry_uids \subseteq disk
    /\ retry_uids \cap sent_uids_file = {}

RegistryMonotone == [][ sent_uids_file \subseteq sent_uids_file' ]_vars

\* C10: on the first forwarding attempt that is not simulated, the dispatch
\* step is reached only after the answer yes or y, and an answer that is
\* neither yes/y nor no/n asks again and changes nothing.
FirstForwardNeedsYes ==
    /\ []((pc = "dispatch" /\ fwd_first_run) => response \in { "yes", "y" })
    /\ [][ (fwd_first_run /\ smtp_result' # smtp_result
              /\ smtp_result' \in { "sent", "failed" })
             => response \in { "yes", "y" } ]_vars
    /\ [][ (pc = "confirm" /\ response' = "other")
             => (pc' = "confirm" /\ UNCHANGED << file_vars, outbox, disk,
                                                smtp_result >>) ]_vars

FirstForwardConfirmed ==
    /\ pc = "dispatch"
    /\ fwd_first_run
    /\ response \in { "yes", "y" }
    /\ ~ SIMULATION_MODE
\* C11: a negative answer at the first-run confirmation ends the iteration
\* with the registry unchanged, the downloaded files on disk, nothing sent
\* and the first-run marker still absent; with the marker absent the next
\* forward that is not simulated asks again.
NegativeAnswerCancelsWithoutEffect ==
    /\ [][ (pc = "confirm" /\ smtp_result' = "cancelled")
             => (/\ sent_uids_file' = sent_uids_file
                 /\ outbox' = outbox
                 /\ disk' = disk
                 /\ downloaded_files \subseteq disk'
                 /\ ~ first_run_flag'
                 /\ pc' = "wait") ]_vars
    /\ [][ (pc = "download" /\ pc' \in { "confirm", "dispatch" }
              /\ ~ SIMULATION_MODE /\ ~ first_run_flag)
             => pc' = "confirm" ]_vars

ForwardCancelled ==
    /\ pc = "wait"
    /\ smtp_result = "cancelled"
    /\ disk # {}
    /\ ~ first_run_flag
    /\ sent_uids_file = {}

\* C12: the confirmation is asked only with simulation off and the marker
\* absent; simulated iterations never ask and never create the marker; the
\* marker is never removed, and with it present no iteration asks again,
\* also after a confirmed dispatch that failed.
GateOnlyOnFirstLiveForward ==
    /\ [](pc = "confirm" => (~ SIMULATION_MODE /\ ~ first_run_flag))
    /\ [](SIMULATION_MODE => ~ first_run_flag)
    /\ [][ first_run_flag => first_run_flag' ]_vars
    /\ [][ (pc = "download" /\ first_run_flag) => pc' # "confirm" ]_vars

NoPromptAfterFailedConfirmedDispatch ==
    /\ pc = "dispatch"
    /\ ~ fwd_first_run
    /\ first_run_flag
    /\ ~ SIMULATION_MODE
    /\ retry_uids # {}
\* C13: a message whose subject or body text matches a force-include
\* keyword is kept as a candidate whatever the exclusion rules say, and a
\* message is excluded only when it is not force-included and an exclusion
\* rule matches it.
ForceIncludeOverridesExclusion ==
    /\ (trg_verdict \notin { "none", "no_header" }
          /\ is_email_force_included(trg_subject, trg_body_text))
         => trg_verdict = "force_included"
    /\ trg_verdict = "excluded"
         => (/\ ~ is_email_force_included(trg_subject, trg_body_text)
             /\ is_email_excluded(trg_sender, trg_subject, trg_body_text))

ForceIncludedDespiteExclusion ==
    /\ trg_verdict = "force_included"
    /\ is_email_excluded(trg_sender, trg_subject, trg_body_text)
    /\ \E i \in 1..Len(EXCLUDED_SENDERS) :
          SenderEntryMatches(EXCLUDED_SENDERS[i], trg_sender)
\* C14: when an exclusion keyword and a force-include keyword, lower-cased
\* and trimmed, are equal or one contains the other, the process exits at
\* load: run_spam_processor is never entered, no iteration starts and no
\* connection is opened.
KeywordConflictIsFatalAtLoad ==
    (\E i \in 1..Len(EXCLUDED_SUBJECT_KEYWORDS),
        j \in 1..Len(FORCE_INCLUDE_KEYWORDS) :
          LET e == StrStrip(StrLower(EXCLUDED_SUBJECT_KEYWORDS[i]))
              f == StrStrip(StrLower(FORCE_INCLUDE_KEYWORDS[j]))
          IN  /\ e # "" /\ f # ""
              /\ (e = f \/ StrContains(e, f) \/ StrContains(f, e)))
      => (/\ pc \in { "import", "exited" }
          /\ mail = "none"
          /\ cmdlog = {}
          /\ outbox = {})

ExitedOnSubstringConflict ==
    /\ pc = "exited"
    /\ EXCLUDED_SUBJECT_KEYWORDS = << "newsletter" >>
    /\ FORCE_INCLUDE_KEYWORDS = << "Newsletter Deals" >>
    /\ LOOP_FREQUENCY_HOURS = << 48 >>
    /\ SPAM_SEARCH_WINDOW_HOURS = << 168 >>

\* C19: with the loop frequency outside (0, 48] hours or the search window
\* outside (0, 168] hours the run loop starts no iteration and no
\* connection is opened.
OutOfRangeConfigNeverStarts ==
    (\/ LOOP_FREQUENCY_HOURS = << >>
     \/ SPAM_SEARCH_WINDOW_HOURS = << >>
     \/ ~ (0 < LOOP_FREQUENCY_HOURS[1] /\ LOOP_FREQUENCY_HOURS[1] <= 48)
     \/ ~ (0 < SPAM_SEARCH_WINDOW_HOURS[1] /\ SPAM_SEARCH_WINDOW_HOURS[1] <= 168))
      => (/\ pc \in { "import", "main", "exited" }
          /\ mail = "none"
          /\ cmdlog = {}
          /\ outbox = {})

ReturnedOnFrequencyAboveLimit ==
    /\ pc = "exited"
    /\ LOOP_FREQUENCY_HOURS = << 49 >>
    /\ SPAM_SEARCH_WINDOW_HOURS = << 168 >>
    /\ ~ validate_keyword_conflicts(EXCLUDED_SUBJECT_KEYWORDS,
                                    FORCE_INCLUDE_KEYWORDS)
\* C15: the precise time filter keeps a message whose internal date, in
\* UTC, is the cutoff instant, and leaves out one that is a second older.
CutoffInstantIsRetained ==
    \A uid \in DOMAIN tf_responses :
        LET r == tf_responses[uid]
            utc == IF r.has_tz THEN r.wall - r.offset ELSE r.wall
            kept == \E i \in 1..Len(tf_filtered) : tf_filtered[i] = uid
        IN  r.kind = "date"
              => (/\ utc = tf_cutoff => kept
                  /\ utc = tf_cutoff - 1 => ~ kept)

CutoffInstantKeptOlderDropped ==
    /\ pc = "timefiltered"
    /\ tf_responses[1] = [kind |-> "date", wall |-> tf_cutoff + 3600,
                          has_tz |-> TRUE, offset |-> 3600]
    /\ tf_responses[2] = [kind |-> "date", wall |-> tf_cutoff - 1,
                          has_tz |-> FALSE, offset |-> 0]
    /\ tf_filtered = << 1 >>

\* C16: the precise time filter keeps every uid whose internal date could
\* not be fetched, found in the response or parsed.
UnresolvedDatesAreRetained ==
    \A uid \in DOMAIN tf_responses :
        tf_responses[uid].kind # "date"
          => \E i \in 1..Len(tf_filtered) : tf_filtered[i] = uid

UnresolvedKeptNextToDropped ==
    /\ pc = "timefiltered"
    /\ tf_responses[1].kind = "parse_raised"
    /\ tf_responses[2] = [kind |-> "date", wall |-> tf_cutoff - 1,
                          has_tz |-> TRUE, offset |-> 0]
    /\ tf_filtered = << 1 >>
\* C17: on the first run, an iteration that ends at the folder selection
\* without a spam folder (the configured folder is forbidden or not
\* spam-named, its selection fails, no candidate is selectable) ends the
\* process instead of reaching the idle wait.
FirstRunWithoutFolderExits ==
    [][ (pc = "select" /\ is_first_run
           /\ pc' \notin { "prompt_use", "prompt_number", "search" })
          => pc' = "exited" ]_vars

\* C18 as stated: on a run that is not the first, nothing but an interrupt
\* ends the loop.
OnlyInterruptEndsLaterRuns ==
    [][ (~ is_first_run /\ pc # pc' /\ pc' \in { "exited", "interrupted" })
          => pc' = "interrupted" ]_vars

\* C18, amended: on a run that is not the first, every step of an iteration
\* leads to the next step or to the idle wait, a failed dispatch and a
\* failed session teardown included, and the wait leads to the next
\* iteration; the loop ends only on an interrupt or when the operator
\* answers no at the "Use this spam folder?" prompt.
LaterRunsReachTheWait ==
    /\ [][ (~ is_first_run /\ pc # pc' /\ pc' \in { "exited", "interrupted" })
             => (pc' = "interrupted" \/ pc = "prompt_use") ]_vars
    /\ [][ (~ is_first_run /\ pc = "dispatch") => pc' = "wait" ]_vars
    /\ [][ (~ is_first_run /\ pc = "download" /\ mail' = "in") => pc' = "wait" ]_vars
    /\ [][ pc = "wait" => pc' \in { "start", "interrupted" } ]_vars

LaterRunWaitsAfterFailedSelection ==
    /\ pc = "wait"
    /\ ~ is_first_run
    /\ mail = "out"
    /\ ~ PREVIEW_ALL_FOLDERS
    /\ \E c \in cmdlog : c[1] = "SELECT"
    /\ folder_cache_file = ""

\* C20: when new files were downloaded, the iteration goes on to the
\* forwarding gate or the dispatch, also when closing the session raised.
TeardownFailureStillForwards ==
    [][ (pc = "download" /\ disk' # disk)
          => pc' \in { "confirm", "dispatch" } ]_vars

\* C21 as stated: whenever the folder cache holds a name at the start of an
\* iteration, the cached folder is selected first and, when the server
\* accepts it, used without a prompt.
CachedFolderAlwaysProbed ==
    [][ (pc = "select" /\ load_spam_folder_cache(folder_cache_file) # "")
          => /\ << "SELECT", load_spam_folder_cache(folder_cache_file) >> \in cmdlog'
             /\ (load_spam_folder_cache(folder_cache_file) \in server_ok
                   => pc' = "search") ]_vars

\* C21, amended: on a run that is not the first, an iteration that finds a
\* name in the folder cache selects that folder first and, when the server
\* accepts it, searches it without a prompt and leaves the cache as it is;
\* a prompt of the fresh selection is reached only when the cache is empty,
\* the run is the first one or the server refused the cached folder, and
\* the cache is written only by the answer to such a prompt.
CachedFolderProbedOnLaterRuns ==
    /\ [][ (pc = "select" /\ ~ is_first_run
              /\ load_spam_folder_cache(folder_cache_file) # "")
             => /\ << "SELECT", load_spam_folder_cache(folder_cache_file) >> \in cmdlog'
                /\ (load_spam_folder_cache(folder_cache_file) \in server_ok
                      => /\ pc' = "search"
                         /\ selected_folder' = load_spam_folder_cache(folder_cache_file)
                         /\ folder_cache_file' = folder_cache_file) ]_vars
    /\ [](pc \in { "prompt_use", "prompt_number" }
            => \/ load_spam_folder_cache(folder_cache_file) = ""
               \/ is_first_run
               \/ load_spam_folder_cache(folder_cache_file) \notin server_ok)
    /\ [][ folder_cache_file' # folder_cache_file
             => pc \in { "prompt_use", "prompt_number" } ]_vars

CachedFolderReused ==
    /\ pc = "search"
    /\ ~ is_first_run
    /\ folder_cache_file = "[Gmail]/Spam"
    /\ selected_folder = "[Gmail]/Spam"
    /\ cmdlog = { << "SELECT", "[Gmail]/Spam" >> }

\* C22 as stated: a fresh selection that finds no selectable folder ends
\* the process.
NoSelectableFolderEndsProcess ==
    [][ NoSelectableFolder => pc' = "exited" ]_vars

\* C22, amended: a fresh selection that finds no selectable folder ends the
\* iteration at once: the session is logged out, no SEARCH or FETCH is
\* sent, nothing is downloaded, dispatched or written to a store; the
\* process exits when the run is the first one and goes to the idle wait
\* otherwise.
NoSelectableFolderAbortsIteration ==
    [][ NoSelectableFolder
          => /\ pc' = IF is_first_run THEN "exited" ELSE "wait"
             /\ mail' = "out"
             /\ \A c \in cmdlog' : c[1] \notin { "SEARCH", "FETCH" }
             /\ selected_folder' = ""
             /\ disk' = disk
             /\ outbox' = outbox
             /\ smtp_result' = "none"
             /\ UNCHANGED file_vars ]_vars

FirstRunAbortedWithoutSelectableFolder ==
    /\ pc = "exited"
    /\ is_first_run
    /\ PREVIEW_ALL_FOLDERS
    /\ mail = "out"
    /\ cmdlog # {}
    /\ \A c \in cmdlog : c[1] = "SELECT" /\ c[2] \in SeqToSet(COMMON_SPAM_FOLDER_NAMES)
    /\ Cardinality(cmdlog) > 1
    /\ disk = {}

\* C23: every call that opens a folder sends EXAMINE, so that a later CLOSE
\* removes nothing, and no command sent to the server changes a mailbox or
\* a message.
SessionIsReadOnly ==
    \A c \in cmdlog :
        /\ imap_command(c[1]) \notin MutatingCommands
        /\ c[1] \in OpeningCalls
             => /\ imap_command(c[1]) = "EXAMINE"
                /\ ~ close_expunges(imap_command(c[1]))

PreviewOpenedAndFetched ==
    /\ pc = "select"
    /\ \E c, d, e \in cmdlog :
         /\ c[1] = "SELECT" /\ d[1] = "FETCH" /\ d[2] = c[2]
         /\ e[1] = "EXAMINE"

\* C24: an interrupt during the idle wait ends the loop: the step writes
\* none of the three stores (registry, folder cache, first-run marker),
\* sends no command and no mail, and no step follows it, so no further
\* iteration starts and the stores stay as the last iteration left them.
InterruptedWaitShutsDown ==
    /\ [][ (pc = "wait" /\ pc' = "interrupted")
             => /\ UNCHANGED file_vars
                /\ cmdlog' = {}
                /\ outbox' = outbox
                /\ disk' = disk ]_vars
    /\ [][ pc # "interrupted" ]_vars

InterruptedAfterSentIteration ==
    /\ pc = "interrupted"
    /\ smtp_result = "sent"
    /\ sent_uids_file # {}
    /\ first_run_flag
    /\ folder_cache_file # ""

\* C25: in simulation mode the dispatch sends nothing and the iteration
\* ends as a normal one; with simulation off, an iteration that wrote at
\* least one downloaded file goes to the forwarding step (through the
\* first-run confirmation where it applies), and that step makes one SMTP
\* send which, when delivered, carries all the downloaded files; an
\* iteration that downloaded nothing sends nothing.
DispatchMatchesDownload ==
    /\ [][ (pc = "dispatch" /\ SIMULATION_MODE)
             => /\ smtp_result' = "simulated"
                /\ outbox' = outbox
                /\ pc' = "wait" ]_vars
    /\ [][ (pc = "download" /\ ~ SIMULATION_MODE /\ disk' # disk)
             => /\ pc' \in { "confirm", "dispatch" }
                /\ downloaded_files' # {} ]_vars
    /\ [][ (pc = "dispatch" /\ ~ SIMULATION_MODE)
             => /\ smtp_result' \in { "sent", "failed" }
                /\ smtp_result' = "sent" => outbox' = outbox \cup downloaded_files
                /\ smtp_result' = "failed" => outbox' = outbox ]_vars
    /\ [][ (pc = "download" /\ pc' \notin { "confirm", "dispatch" })
             => outbox' = outbox /\ smtp_result' = "none" ]_vars
    /\ [][ outbox' # outbox => pc = "dispatch" ]_vars

\* C26: a folder name that is a member of FORBIDDEN_FOLDERS, or differs
\* from one only in letter case, in quoting or in bracket style, is
\* classified as forbidden.
ForbiddenVariantsAreForbidden ==
    (pc = "classified" /\ cls_name \in ForbiddenVariantNames) => cls_forbidden

ForbiddenVariantClassified ==
    /\ pc = "classified"
    /\ cls_name = "'gmail/sent mail'"
    /\ cls_name \in ForbiddenVariantNames
    /\ cls_name \notin FORBIDDEN_FOLDERS
    /\ cls_forbidden

\* C27: the force-include verdict of a message does not depend on its
\* sender: with the subject and body of the analysed message, every other
\* sender, one that contains a force-include keyword included, gets the
\* force-include verdict exactly when the analysed message got it.
ForceIncludeIgnoresSender ==
    (pc = "analyzed" /\ trg_verdict # "no_header")
      => \A other \in MessageSenders :
            (TriageVerdict(other, trg_subject, trg_body_text) = "force_included")
              = (trg_verdict = "force_included")

KeywordInSenderNotForceIncluded ==
    /\ pc = "analyzed"
    /\ FORCE_INCLUDE_KEYWORDS = << "Invoice" >>
    /\ EXCLUDED_SENDERS = << "@Bank.com" >>
    /\ trg_sender = "invoice@bank.com"
    /\ trg_subject = "Hello"
    /\ trg_verdict = "excluded"

\* C28: the registry filter runs on the search result before the time
\* filter: the uids handed to the time filter (each gets an INTERNALDATE
\* fetch), the candidates taken from them (header and body fetches) and the
\* downloaded files hold no uid of the registry, which no step changes
\* between the search and the dispatch.
RegisteredUidsNeverFetched ==
    /\ [](pc \in { "filter", "download", "confirm", "dispatch" }
            => /\ new_email_uids \cap sent_uids_file = {}
               /\ spam_candidates \subseteq new_email_uids
               /\ downloaded_files \subseteq spam_candidates)
    /\ [][ (pc \in { "search", "filter", "download", "confirm" })
             => sent_uids_file' = sent_uids_file ]_vars

\* C29: for every window of 1 to 168 hours, the date of the coarse search
\* is yesterday's date when the window is shorter than 24 hours and the
\* date of the local cutoff time otherwise, and it is never later than the
\* date of the local cutoff time now - window.
SearchDateNotAfterCutoffDate ==
    pc = "cutoff_done"
      => LET w == SPAM_SEARCH_WINDOW_HOURS[1]
             cutoffLocal == ct_now - w * SecondsPerHour
         IN  /\ ct_result.cutoff_time = cutoffLocal
             /\ w < 24 => ct_result.date_since = strftime_date(ct_now) - 1
             /\ w >= 24 => ct_result.date_since = strftime_date(cutoffLocal)
             /\ ct_result.date_since <= strftime_date(cutoffLocal)

ShortWindowAcrossMidnight ==
    /\ pc = "cutoff_done"
    /\ SPAM_SEARCH_WINDOW_HOURS = << 5 >>
    /\ ct_now = 21 * SecondsPerDay + 3600
    /\ ct_result.cutoff_time = 20 * SecondsPerDay + 72000
    /\ ct_result.date_since = 20

\* C30: at the numbered prompt of the fresh selection, which lists the
\* selectable folders with "[Google Mail]/Spam" first as the suggested
\* one, an empty answer selects that suggested folder.
EmptyAnswerSelectsDefault ==
    [][ (pc = "prompt_number" /\ response' = "empty")
          => /\ selectable_folders[1] = default_folder
             /\ pc' = "search"
             /\ selected_folder' = default_folder ]_vars

\* C31 as stated: with no keyword rule and only "@domain" or ".domain"
\* entries in EXCLUDED_SENDERS, a message is excluded only if the domain of
\* its sender equals the entry's domain or ends with it as a sub-domain
\* suffix.
DomainEntriesMatchBySuffixOnly ==
    (/\ pc = "analyzed"
     /\ trg_verdict = "excluded"
     /\ EXCLUDED_SUBJECT_KEYWORDS = << >>
     /\ \A i \in 1..Len(EXCLUDED_SENDERS) :
           SubSeq(EXCLUDED_SENDERS[i], 1, 1) \in { "@", "." })
      => \E i \in 1..Len(EXCLUDED_SENDERS) :
            LET entry == StrLower(EXCLUDED_SENDERS[i])
                domain == SenderDomain(StrLower(trg_sender))
                bare == SubSeq(entry, 2, Len(entry))
            IN  IF SubSeq(entry, 1, 1) = "@"
                THEN domain = bare \/ StrEndsWith(domain, "." \o bare)
                ELSE StrEndsWith(domain, entry)

\* C31, amended: with no keyword rule, a message that is not force-included
\* is excluded exactly when some entry of EXCLUDED_SENDERS matches: a
\* ".domain" entry when the sender's domain ends with it; an "@domain" entry
\* when the sender's domain equals the domain or ends with "." and the
\* domain, and also when the sender address contains the entry anywhere;
\* any other entry when the sender address contains it.
SenderExclusionRule ==
    (/\ pc = "analyzed"
     /\ trg_verdict \in { "excluded", "identified" }
     /\ EXCLUDED_SUBJECT_KEYWORDS = << >>)
      => ((trg_verdict = "excluded")
            = \E i \in 1..Len(EXCLUDED_SENDERS) :
                LET entry == StrStrip(StrLower(EXCLUDED_SENDERS[i]))
                    address == StrLower(trg_sender)
                    domain == SenderDomain(address)
                    bare == SubSeq(entry, 2, Len(entry))
                IN  /\ entry # ""
                    /\ IF SubSeq(entry, 1, 1) = "."
                       THEN domain # "" /\ StrEndsWith(domain, entry)
                       ELSE \/ StrContains(address, entry)
                            \/ /\ SubSeq(entry, 1, 1) = "@"
                               /\ domain # ""
                               /\ \/ domain = bare
                                  \/ StrEndsWith(domain, "." \o bare))

DomainEntryMatchedInsideAddress ==
    /\ pc = "analyzed"
    /\ EXCLUDED_SENDERS = << "@Bank.com" >>
    /\ EXCLUDED_SUBJECT_KEYWORDS = << >>
    /\ trg_sender = "alice@bank.com.evil.net"
    /\ trg_verdict = "excluded"

\* C32: parse_rfc822_size returns the first integer that follows
\* RFC822.SIZE in the response, whatever the shape of the item that holds
\* it (bytes, str, tuple), and 0 for unknown only when the response holds
\* no such integer.
SizeFoundInEveryShape ==
    pc = "sized" => sz_size = parse_rfc822_size_any_shape(sz_data)

\* C33: a failed or empty LIST gives an empty folder sequence and raises
\* nothing: on a run that is not the first, the step that connects and
\* lists ends the iteration only when the connection itself failed, and
\* otherwise goes on to the folder selection with the session open; the
\* process exits at this step only on the first run.
ListingFailsSoft ==
    /\ [][ (pc = "start" /\ ~ is_first_run)
             => \/ pc' = "select" /\ mail' = "in"
                \/ pc' = "wait" /\ mail' = "none" ]_vars
    /\ [][ (pc = "start" /\ pc' = "exited")
             => is_first_run /\ mail' = "out" ]_vars

LaterRunSelectsAfterEmptyListing ==
    /\ pc = "select"
    /\ ~ is_first_run
    /\ PREVIEW_ALL_FOLDERS
    /\ mail = "in"
    /\ spam_candidate_names = << >>
    /\ cmdlog = {}

\* C34: the uids a dispatch adds to the registry are uids of downloaded
\* files, which the bundle carried; a candidate without a downloaded file
\* is not registered.
OnlyDownloadedUidsRegistered ==
    [][ pc = "dispatch"
          => /\ (sent_uids_file' \ sent_uids_file) \subseteq downloaded_files
             /\ (sent_uids_file' \ sent_uids_file) \subseteq outbox' ]_vars

\* C35: first-run status is cleared only by an iteration that has selected
\* its spam folder: the step that clears it starts after the selection
\* (search, filter, download, confirmation or dispatch), never at the
\* connection or at the folder selection itself.
FirstRunClearedOnlyAfterSelection ==
    [][ (is_first_run /\ ~ is_first_run')
          => (/\ pc \in { "search", "filter", "download", "confirm", "dispatch" }
              /\ selected_folder # "") ]_vars

\* C36: with the folder preview on, a fresh selection that finds at least
\* one selectable spam folder reaches the numbered prompt, whether or not
\* "[Google Mail]/Spam" is among the selectable folders.
SelectableFolderReachesPrompt ==
    [][ (/\ pc = "select"
         /\ PREVIEW_ALL_FOLDERS
         /\ \/ load_spam_folder_cache(folder_cache_file) = ""
            \/ is_first_run
            \/ load_spam_folder_cache(folder_cache_file) \notin server_ok
         /\ \E n \in SeqToSet(spam_candidate_names \o COMMON_SPAM_FOLDER_NAMES) :
               CanSelect(n, server_ok))
          => (pc' = "prompt_number" /\ selectable_folders' # << >>) ]_vars

\* C37: in the idle wait no session of the finished iteration is logged
\* in: the session was never opened or has been logged out.
NoSessionOpenInWait ==
    pc = "wait" => mail \in { "none", "out" }

\* C38: a uid the registry filter removes from the search result of the
\* selected folder belongs to a message of that folder that was delivered:
\* no message that was never dispatched is filtered out as already sent,
\* also after the selected folder has changed. Two spellings of a folder
\* name that normalize to the same name count as the same folder.
OnlyForwardedMessagesFiltered ==
    [][ (pc = "search" /\ pc' = "filter")
          => \A uid \in email_uids' \ new_email_uids' :
                \E d \in dispatched :
                    /\ d[2] = uid
                    /\ normalize_folder_name(d[1])
                         = normalize_folder_name(selected_folder) ]_vars
====
